---- MODULE Spec2Model ----
(***************************************************************************)
(* Model of the tenses page script: src/app.js (checkbox toggle) and       *)
(* src/unnamed/part_000 (two buttons).  The page state is the in-module    *)
(* `state` record, the toggle control, the class list of the controls      *)
(* element, the error section, the table body and the startup fetch.       *)
(*                                                                         *)
(* JSON values: a position that may hold null/undefined is an optional,    *)
(* None (absent, null) or Some(v).  Texts are sequences of one-character   *)
(* strings so that escaping and HTML parsing are computed, not assumed.    *)
(***************************************************************************)
EXTENDS Naturals, Sequences, FiniteSets, TLC

VARIABLES script, voiceToggle, state, controls, errorSection, tbody, fetch,
          raised, toggled, selected

vars == <<script, voiceToggle, state, controls, errorSection, tbody, fetch,
          raised, toggled, selected>>

----------------------------------------------------------------------------
(* Bounds of the explored datasets *)

MaxTenses == 2

MaxAspects == 2

MaxStructures == 2

MaxMarkers == 2

----------------------------------------------------------------------------
(* Optional values and small helpers *)

None == <<>>

Some(v) == <<v>>

IsSome(o) == Len(o) > 0

SeqsUpTo(S, n) == UNION {[1..k -> S] : k \in 0..n}

(* JS truthiness of an optional string: absent, null and "" are falsy *)
Truthy(o) == IsSome(o) /\ Len(o[1]) > 0

----------------------------------------------------------------------------
(* Texts *)

(* the placeholder glyph, an em dash in the source (one character) *)
DASH == <<"-">>

F1 == <<"S", "<", "&">>

F2 == <<"&", "l", "t", ";">>

D1 == <<"d", "<", "1">>

D2 == <<"d", "2">>

M1 == <<"m", "1">>

M2 == <<"m", "'">>

Times == {<<"N", "o", "w">>, <<"T", ">">>}

AMP == <<"&", "a", "m", "p", ";">>

LT == <<"&", "l", "t", ";">>

GT == <<"&", "g", "t", ";">>

QUOT == <<"&", "q", "u", "o", "t", ";">>

APOS == <<"&", "#", "0", "3", "9", ";">>

----------------------------------------------------------------------------
(* Dataset domain (shape of time-tenses.json, every position nullable) *)

Voices == {"active", "passive"}

StructureTypes == {"Affirmative", "Negative", "Question"}

TypeValues == {None} \cup {Some(t) : t \in StructureTypes \cup {"Imperative"}}

(* a null entry, every type (or none) with a formula, and one type with the
   other formula or none *)
StructureEntries ==
  {None}
  \cup {Some([type |-> t, formula |-> Some(F1)]) : t \in TypeValues}
  \cup {Some([type |-> Some("Affirmative"), formula |-> f]) : f \in {None, Some(F2)}}

StructureLists == SeqsUpTo(StructureEntries, MaxStructures)

AspectNames == {"Simple", "Continuous", "Perfect", "Perfect Continuous"}

NameValues == {None} \cup {Some(n) : n \in AspectNames \cup {"Habitual"}}

BaseAspect ==
  [name |-> Some("Simple"),
   description |-> Some(D1),
   markers |-> Some(<<M1>>),
   structures |-> Some([active |-> Some(<<Some([type |-> Some("Affirmative"), formula |-> Some(F1)])>>),
                        passive |-> Some(<<Some([type |-> Some("Affirmative"), formula |-> Some(F2)])>>)])]

(* one aspect, one field group varied at a time around BaseAspect *)
CellAspects ==
  {[BaseAspect EXCEPT !.description = d] : d \in {None, Some(<<>>), Some(D1), Some(D2)}}
  \cup {[BaseAspect EXCEPT !.markers = m] :
          m \in {None} \cup {Some(ms) : ms \in SeqsUpTo({M1, M2}, MaxMarkers)}}
  \cup {[BaseAspect EXCEPT !.structures = None]}
  \cup {[BaseAspect EXCEPT !.structures = Some([active |-> l, passive |-> BaseAspect.structures[1].passive])] :
          l \in {None} \cup {Some(sl) : sl \in StructureLists}}
  \cup {[BaseAspect EXCEPT !.structures = Some([active |-> BaseAspect.structures[1].active, passive |-> l])] :
          l \in {None} \cup {Some(sl) : sl \in StructureLists}}

(* aspects of the aspect lists: a null entry, every name (or none), and a
   second aspect of the base name with another description *)
ListAspects ==
  {None}
  \cup {Some([BaseAspect EXCEPT !.name = n]) : n \in NameValues}
  \cup {Some([BaseAspect EXCEPT !.description = Some(D2)])}

(* tenses of the tense lists *)
ListTenses ==
  {None} \cup {Some([time |-> t, aspects |-> a]) :
                 t \in Times, a \in {None, Some(<<>>), Some(<<Some(BaseAspect)>>)}}

OneTense(aspects) == Some([tenses |-> Some(<<Some([time |-> <<"N", "o", "w">>, aspects |-> aspects])>>)])

Datasets ==
  {None, Some([tenses |-> None])}
  \cup {Some([tenses |-> Some(ts)]) : ts \in SeqsUpTo(ListTenses, MaxTenses)}
  \cup {OneTense(None)}
  \cup {OneTense(Some(as)) : as \in SeqsUpTo(ListAspects, MaxAspects)}
  \cup {OneTense(Some(<<Some(a)>>)) : a \in CellAspects}

----------------------------------------------------------------------------
(* DOM nodes *)

Node(tag, cls, text, kids) == [tag |-> tag, cls |-> cls, text |-> text, kids |-> kids]

RECURSIVE ConcatText(_, _)
RECURSIVE TextContent(_)
ConcatText(kids, i) ==
  IF i > Len(kids) THEN <<>> ELSE TextContent(kids[i]) \o ConcatText(kids, i + 1)

TextContent(n) == n.text \o ConcatText(n.kids, 1)

----------------------------------------------------------------------------
(* escapeHtml and the HTML parser behind innerHTML *)

RECURSIVE ReplaceAll(_, _, _)
ReplaceAll(str, ch, rep) ==
  IF Len(str) = 0 THEN <<>>
  ELSE (IF Head(str) = ch THEN rep ELSE <<Head(str)>>) \o ReplaceAll(Tail(str), ch, rep)

(* escapeHtml() replacing "&" last: the entities it has just written are
   escaped again *)
escapeHtmlAmpLast(str) ==
  ReplaceAll(ReplaceAll(ReplaceAll(ReplaceAll(ReplaceAll(str,
    "<", LT), ">", GT), "\"", QUOT), "'", APOS), "&", AMP)

escapeHtml(str) ==
  ReplaceAll(ReplaceAll(ReplaceAll(ReplaceAll(ReplaceAll(str,
    "&", AMP), "<", LT), ">", GT), "\"", QUOT), "'", APOS)

StartsWith(s, p) == Len(s) >= Len(p) /\ SubSeq(s, 1, Len(p)) = p

Drop(s, n) == SubSeq(s, n + 1, Len(s))

RECURSIVE HtmlText(_)
HtmlText(html) ==
  IF Len(html) = 0 THEN <<>>
  ELSE IF StartsWith(html, AMP) THEN <<"&">> \o HtmlText(Drop(html, Len(AMP)))
  ELSE IF StartsWith(html, LT) THEN <<"<">> \o HtmlText(Drop(html, Len(LT)))
  ELSE IF StartsWith(html, GT) THEN <<">">> \o HtmlText(Drop(html, Len(GT)))
  ELSE IF StartsWith(html, QUOT) THEN <<"\"">> \o HtmlText(Drop(html, Len(QUOT)))
  ELSE IF StartsWith(html, APOS) THEN <<"'">> \o HtmlText(Drop(html, Len(APOS)))
  ELSE <<Head(html)>> \o HtmlText(Tail(html))

(* element.innerHTML = markup : the children the parser builds *)
InnerHTML(markup) == <<Node(markup.tag, markup.cls, HtmlText(markup.html), <<>>)>>

----------------------------------------------------------------------------
(* Plain JS objects used as maps *)

EmptyMap == [k \in {} |-> None]

(* an assignment that does not overwrite: the first occurrence of a key wins *)
PutFirst(map, key, val) ==
  [k \in DOMAIN map \cup {key} |-> IF k \in DOMAIN map THEN map[k] ELSE val]

Put(map, key, val) == [k \in DOMAIN map \cup {key} |-> IF k = key THEN val ELSE map[k]]

Lookup(map, key) == IF key \in DOMAIN map THEN Some(map[key]) ELSE None

PropertyKey(o) == IF IsSome(o) THEN o[1] ELSE "undefined"

----------------------------------------------------------------------------
(* Rendering helpers *)

columnOrder == <<"Simple", "Continuous", "Perfect", "Perfect Continuous">>

RECURSIVE indexLoop(_, _, _)
indexLoop(structures, i, map) ==
  IF i > Len(structures) THEN [raised |-> FALSE, map |-> map]
  ELSE IF ~IsSome(structures[i]) THEN [raised |-> TRUE, map |-> map]
  ELSE indexLoop(structures, i + 1, Put(map, PropertyKey(structures[i][1].type), structures[i][1]))

indexByType(structures) == indexLoop(structures, 1, EmptyMap)

renderFormula(entry, type) ==
  IF ~IsSome(entry) \/ ~Truthy(entry[1].formula)
  THEN [tag |-> "span", cls |-> "muted", html |-> DASH]
  ELSE [tag |-> "div", cls |-> "formula" \o " formula--" \o type,
        html |-> escapeHtml(entry[1].formula[1])]

renderMarkers(markers) ==
  Node("div", "markers", <<>>,
       [i \in 1..Len(markers) |-> Node("span", "marker-chip", markers[i], <<>>)]
       \o (IF Len(markers) = 0 THEN <<Node("span", "muted", DASH, <<>>)>> ELSE <<>>))

renderCellContent(aspect, voiceKey) ==
  IF ~IsSome(aspect)
  THEN [raised |-> FALSE,
        node |-> Node("div", "cell-content", <<>>, <<Node("span", "muted", DASH, <<>>)>>)]
  ELSE
    LET a == aspect[1]
        desc == IF Truthy(a.description)
                THEN <<Node("div", "cell-desc", a.description[1], <<>>)>>
                ELSE <<>>
        structures == IF IsSome(a.structures) /\ IsSome(a.structures[1][voiceKey])
                      THEN a.structures[1][voiceKey][1]
                      ELSE <<>>
        byType == indexByType(structures)
        aff == Node("div", "cell-block", <<>>,
                    InnerHTML(renderFormula(Lookup(byType.map, "Affirmative"), "aff")))
        neg == Node("div", "cell-block", <<>>,
                    InnerHTML(renderFormula(Lookup(byType.map, "Negative"), "neg")))
        q == Node("div", "cell-block", <<>>,
                  InnerHTML(renderFormula(Lookup(byType.map, "Question"), "q")))
        markersBlock == Node("div", "cell-block", <<>>,
                             <<renderMarkers(IF IsSome(a.markers) THEN a.markers[1] ELSE <<>>)>>)
    IN IF byType.raised
       THEN [raised |-> TRUE, node |-> Node("div", "cell-content", <<>>, desc)]
       ELSE [raised |-> FALSE,
             node |-> Node("div", "cell-content", <<>>, desc \o <<aff, neg, q, markersBlock>>)]

renderTimeCell(timeName) ==
  Node("div", "cell-content", <<>>, <<Node("div", "time-name", timeName, <<>>)>>)

(* the first cell of a row, as each script builds it *)
TimeCell(sc, time) ==
  IF sc = "app.js"
  THEN Node("td", "", <<>>,
            InnerHTML([tag |-> "div", cls |-> "time-name", html |-> escapeHtml(time)]))
  ELSE Node("td", "", <<>>, <<renderTimeCell(time)>>)

RECURSIVE nameLoop(_, _, _)
nameLoop(aspects, i, map) ==
  IF i > Len(aspects) THEN [raised |-> FALSE, map |-> map]
  ELSE IF ~IsSome(aspects[i]) THEN [raised |-> TRUE, map |-> map]
  ELSE nameLoop(aspects, i + 1, Put(map, PropertyKey(aspects[i][1].name), aspects[i][1]))

nameToAspect(aspects) == nameLoop(aspects, 1, EmptyMap)

(* one iteration of the loop over state.data.tenses *)
renderRow(tense, voiceKey, sc) ==
  IF ~IsSome(tense) \/ ~IsSome(tense[1].aspects)
  THEN [raised |-> TRUE, row |-> None]
  ELSE
    LET byName == nameToAspect(tense[1].aspects[1])
        cells == [j \in 1..Len(columnOrder) |->
                    renderCellContent(Lookup(byName.map, columnOrder[j]), voiceKey)]
    IN IF byName.raised \/ (\E j \in 1..Len(columnOrder) : cells[j].raised)
       THEN [raised |-> TRUE, row |-> None]
       ELSE [raised |-> FALSE,
             row |-> Some(Node("tr", "", <<>>,
                      <<TimeCell(sc, tense[1].time)>>
                      \o [j \in 1..Len(columnOrder) |-> Node("td", "", <<>>, <<cells[j].node>>)]))]

RECURSIVE renderLoop(_, _, _, _, _)
renderLoop(tenses, i, voiceKey, sc, rows) ==
  IF i > Len(tenses) THEN [tbody |-> rows, raised |-> FALSE]
  ELSE LET r == renderRow(tenses[i], voiceKey, sc)
       IN IF r.raised THEN [tbody |-> rows, raised |-> TRUE]
          ELSE renderLoop(tenses, i + 1, voiceKey, sc, Append(rows, r.row[1]))

(* render() without the clearing of tbody: rows pile up across calls *)
renderKeepRows(st, tb, sc) ==
  IF ~IsSome(st.data) THEN [tbody |-> tb, raised |-> FALSE]
  ELSE IF ~IsSome(st.data[1].tenses) THEN [tbody |-> tb, raised |-> TRUE]
  ELSE renderLoop(st.data[1].tenses[1], 1, st.voice, sc, tb)

(* render(): the table body it leaves and whether it raised *)
render(st, tb, sc) ==
  IF ~IsSome(st.data) THEN [tbody |-> tb, raised |-> FALSE]
  ELSE IF ~IsSome(st.data[1].tenses) THEN [tbody |-> <<>>, raised |-> TRUE]
  ELSE renderLoop(st.data[1].tenses[1], 1, st.voice, sc, <<>>)

----------------------------------------------------------------------------
(* Page helpers *)

ClassToggle(classList, name, force) ==
  IF force THEN classList \cup {name} ELSE classList \ {name}

updateToggleState(classList, checked) ==
  ClassToggle(ClassToggle(classList, "is-active", ~checked), "is-passive", checked)

updateControlsState(classList, voice) ==
  ClassToggle(ClassToggle(classList, "is-active", voice = "active"), "is-passive", voice = "passive")

(* showError() that sets the text but leaves the section hidden *)
showErrorHidden(message) ==
  [hidden |-> TRUE, textContent |-> "Oshibka zagruzki dannyh: " \o message]

(* the message prefix is the source's Russian text, transliterated *)
showError(message) ==
  [hidden |-> FALSE, textContent |-> "Oshibka zagruzki dannyh: " \o message]

Messages ==
  {"Failed to fetch", "HTTP 404 while fetching ./time-tenses.json", "Unexpected token"}

----------------------------------------------------------------------------
(* The page *)

Init ==
  /\ script \in {"app.js", "part_000"}
  /\ voiceToggle \in (IF script = "app.js" THEN BOOLEAN ELSE {FALSE})
  /\ state = [voice |-> "active", data |-> None]
  /\ controls = (IF script = "app.js"
                 THEN updateToggleState({}, voiceToggle)
                 ELSE updateControlsState({}, state.voice))
  /\ errorSection = [hidden |-> TRUE, textContent |-> ""]
  /\ tbody = <<>>
  /\ fetch = "pending"
  /\ raised = FALSE
  /\ toggled = {}
  /\ selected = None

(* a completion handler that leaves the fetch outstanding, as a reload would *)
FetchResolveAgain ==
  /\ fetch = "pending"
  /\ \E data \in Datasets :
       /\ fetch' = "pending"
       /\ state' = [state EXCEPT !.data = data]
       /\ LET r == render(state', tbody, script)
          IN /\ tbody' = r.tbody
             /\ raised' = r.raised
             /\ errorSection' = IF r.raised THEN showError("TypeError") ELSE errorSection
  /\ UNCHANGED <<script, voiceToggle, controls, toggled, selected>>

(* loadData() fulfils with data: state.data = data; render(); a raise goes to .catch *)
FetchResolve ==
  /\ fetch = "pending"
  /\ \E data \in Datasets :
       /\ fetch' = "fulfilled"
       /\ state' = [state EXCEPT !.data = data]
       /\ LET r == render(state', tbody, script)
          IN /\ tbody' = r.tbody
             /\ raised' = r.raised
             /\ errorSection' = IF r.raised THEN showError("TypeError") ELSE errorSection
  /\ UNCHANGED <<script, voiceToggle, controls, toggled, selected>>

(* loadData() rejects: network error, !response.ok, or response.json() fails *)
FetchReject ==
  /\ fetch = "pending"
  /\ fetch' = "rejected"
  /\ \E message \in Messages : errorSection' = showError(message)
  /\ UNCHANGED <<script, voiceToggle, state, controls, tbody, raised, toggled, selected>>

(* history: when toggle events were handled, before ("early") or after
   ("late") the fetch settled *)
Mark == toggled \cup {IF fetch = "pending" THEN "early" ELSE "late"}

(* 'change' listener that returns before touching state while no data is loaded *)
ChangeOnlyWhenLoaded ==
  /\ script = "app.js"
  /\ voiceToggle' = ~voiceToggle
  /\ state' = IF IsSome(state.data)
              THEN [state EXCEPT !.voice = IF voiceToggle' THEN "passive" ELSE "active"]
              ELSE state
  /\ controls' = IF IsSome(state.data) THEN updateToggleState(controls, voiceToggle') ELSE controls
  /\ LET r == render(state', tbody, script)
     IN tbody' = r.tbody /\ raised' = r.raised
  /\ toggled' = Mark
  /\ selected' = Some(IF voiceToggle' THEN "passive" ELSE "active")
  /\ UNCHANGED <<script, errorSection, fetch>>

(* app.js: 'change' listener of the checkbox *)
Change ==
  /\ script = "app.js"
  /\ voiceToggle' = ~voiceToggle
  /\ state' = [state EXCEPT !.voice = IF voiceToggle' THEN "passive" ELSE "active"]
  /\ controls' = updateToggleState(controls, voiceToggle')
  /\ LET r == render(state', tbody, script)
     IN tbody' = r.tbody /\ raised' = r.raised
  /\ toggled' = Mark
  /\ selected' = Some(IF voiceToggle' THEN "passive" ELSE "active")
  /\ UNCHANGED <<script, errorSection, fetch>>

(* part_000: 'click' listeners of the two buttons *)
Click(voice) ==
  /\ script = "part_000"
  /\ state' = [state EXCEPT !.voice = voice]
  /\ controls' = updateControlsState(controls, state'.voice)
  /\ LET r == render(state', tbody, script)
     IN tbody' = r.tbody /\ raised' = r.raised
  /\ toggled' = Mark
  /\ selected' = Some(voice)
  /\ UNCHANGED <<script, voiceToggle, errorSection, fetch>>

ClickActive == Click("active")

ClickPassive == Click("passive")

Next ==
  \/ FetchResolve
  \/ FetchReject
  \/ Change
  \/ ClickActive
  \/ ClickPassive

Spec == Init /\ [][Next]_vars

----------------------------------------------------------------------------
(* Vocabulary of the properties *)

Categories == <<"Simple", "Continuous", "Perfect", "Perfect Continuous">>

Loaded == fetch = "fulfilled" /\ IsSome(state.data)

tenses == state.data[1].tenses[1]

Unique(seq, Key(_)) ==
  \A m, n \in 1..Len(seq) : Key(seq[m]) = Key(seq[n]) => m = n

WellFormedStructures(list) ==
  /\ IsSome(list)
  /\ \A n \in 1..Len(list[1]) :
       /\ IsSome(list[1][n])
       /\ IsSome(list[1][n][1].type)
       /\ list[1][n][1].type[1] \in StructureTypes
       /\ Truthy(list[1][n][1].formula)
  /\ LET TypeOf(e) == e[1].type IN Unique(list[1], TypeOf)

WellFormedAspects(aspects) ==
  /\ IsSome(aspects)
  /\ \A n \in 1..Len(aspects[1]) :
       /\ IsSome(aspects[1][n])
       /\ IsSome(aspects[1][n][1].name)
       /\ aspects[1][n][1].name[1] \in AspectNames
       /\ IsSome(aspects[1][n][1].structures)
       /\ \A v \in Voices : WellFormedStructures(aspects[1][n][1].structures[1][v])
  /\ LET NameOf(e) == e[1].name IN Unique(aspects[1], NameOf)

(* the data model: every record present, names and types known and unique;
   description and markers are optional *)
WellFormed(data) ==
  /\ IsSome(data)
  /\ IsSome(data[1].tenses)
  /\ \A i \in 1..Len(data[1].tenses[1]) :
       /\ IsSome(data[1].tenses[1][i])
       /\ WellFormedAspects(data[1].tenses[1][i][1].aspects)

(* positions of the aspects of a tense that carry the given name *)
Named(aspects, name) ==
  {n \in 1..Len(aspects) : IsSome(aspects[n]) /\ aspects[n][1].name = Some(name)}

Last(S) == CHOOSE n \in S : \A m \in S : m <= n

----------------------------------------------------------------------------
(* C1: for a well-formed dataset, once loaded and after any toggles, the table
   body has exactly one row per tense in dataset order, and each row has its
   time cell followed by exactly four aspect cells in the order Simple,
   Continuous, Perfect, Perfect Continuous; rows never accumulate. *)
C1_OneRowPerTense ==
  (fetch = "fulfilled" /\ WellFormed(state.data)) =>
    /\ Len(tbody) = Len(tenses)
    /\ \A i \in 1..Len(tbody) :
         LET row == tbody[i]
             tense == tenses[i][1]
         IN /\ row.tag = "tr"
            /\ Len(row.kids) = 1 + Len(Categories)
            /\ TextContent(row.kids[1]) = tense.time
            /\ \A j \in 1..Len(Categories) :
                 LET cell == row.kids[j + 1]
                     at == Named(tense.aspects[1], Categories[j])
                 IN /\ cell.tag = "td"
                    /\ at = {} => TextContent(cell) = DASH
                    /\ at # {} =>
                         /\ TextContent(cell) # DASH
                         /\ LET a == tense.aspects[1][Last(at)][1]
                            IN Truthy(a.description) =>
                                 StartsWith(TextContent(cell), a.description[1])

C1_Witness ==
  /\ fetch = "fulfilled"
  /\ WellFormed(state.data)
  /\ Len(tenses) = MaxTenses
  /\ \E i \in 1..Len(tenses) : Len(tenses[i][1].aspects[1]) > 0
  /\ "late" \in toggled
  /\ Len(tbody) = MaxTenses

(* C2: after a failed startup fetch the error region is visible and the table
   body is empty, in every later state, whatever toggles follow. *)
C2_FailureShowsErrorOnly ==
  fetch = "rejected" =>
    /\ ~errorSection.hidden
    /\ tbody = <<>>
    /\ ~IsSome(state.data)

C2_Witness ==
  /\ fetch = "rejected"
  /\ "late" \in toggled
  /\ state.voice = "passive"

(* C3 (as claimed): in every reachable state, for every dataset the fetch can
   deliver, a visible error region implies a table body without rows. *)
C3_NoPartialTable ==
  ~errorSection.hidden => tbody = <<>>

(* a parsed dataset whose records are all present: whatever is missing is a
   field of a Tense, Aspect or Structure record *)
AllPresent(list) ==
  \A n \in 1..Len(list) : IsSome(list[n])

OnlyAbsentFields(data) ==
  /\ IsSome(data)
  /\ IsSome(data[1].tenses)
  /\ AllPresent(data[1].tenses[1])
  /\ \A i \in 1..Len(data[1].tenses[1]) :
       LET aspects == data[1].tenses[1][i][1].aspects
       IN IsSome(aspects) =>
            /\ AllPresent(aspects[1])
            /\ \A n \in 1..Len(aspects[1]) :
                 LET structures == aspects[1][n][1].structures
                 IN IsSome(structures) =>
                      \A v \in Voices :
                        IsSome(structures[1][v]) => AllPresent(structures[1][v][1])

(* C6 (as claimed): for any parsed dataset in which only fields of Tense,
   Aspect or Structure records are absent (a tense's aspect list included),
   render completes without raising. *)
C6_RenderNeverRaises ==
  (fetch = "fulfilled" /\ OnlyAbsentFields(state.data)) => ~raised

(* the table render() builds for the loaded dataset under a voice *)
TableFor(voice) == render([state EXCEPT !.voice = voice], <<>>, script).tbody

OtherVoice == IF state.voice = "active" THEN "passive" ELSE "active"

(* the aspect shown in column j of row i has nothing that depends on the voice *)
VoiceNeutral(i, j) ==
  LET aspects == tenses[i][1].aspects[1]
      at == Named(aspects, Categories[j])
  IN \/ at = {}
     \/ ~IsSome(aspects[Last(at)][1].structures)
     \/ aspects[Last(at)][1].structures[1].active = aspects[Last(at)][1].structures[1].passive

(* C4 (as claimed): for any dataset the tables rendered under the two voices
   have the same rows, time cells, descriptions and blocks per cell, and a
   cell whose aspect has the same structures for both voices, or no aspect,
   is the same in both. *)
C4_VoiceChangesOnlyFormulas ==
  Loaded =>
    LET other == TableFor(OtherVoice)
    IN /\ Len(tbody) = Len(other)
       /\ \A i \in 1..Len(tbody) :
            /\ tbody[i].kids[1] = other[i].kids[1]
            /\ \A j \in 1..Len(Categories) :
                 LET mine == tbody[i].kids[j + 1].kids[1]
                     theirs == other[i].kids[j + 1].kids[1]
                 IN /\ Len(mine.kids) = Len(theirs.kids)
                    /\ \A k \in 1..Len(mine.kids) :
                         /\ mine.kids[k].cls = theirs.kids[k].cls
                         /\ mine.kids[k].cls = "cell-desc" => mine.kids[k] = theirs.kids[k]
                    /\ VoiceNeutral(i, j) => mine = theirs

(* C4 on the datasets without null records (not a claim: the part of C4 the
   code does satisfy) *)
C4_OnPresentRecords ==
  OnlyAbsentFields(state.data) => C4_VoiceChangesOnlyFormulas

(* C7: state.data is written at most once, by the completion of the one
   fetch; no toggle or render changes it, and the fetch, once settled, is
   never issued again. *)
C7_DataWrittenOnce ==
  [][/\ state'.data # state.data => (fetch = "pending" /\ fetch' = "fulfilled")
     /\ fetch # "pending" => fetch' = fetch]_vars

C7_Witness ==
  /\ Loaded
  /\ toggled = {"late"}
  /\ state.voice = "passive"

BlockTypes == <<"Affirmative", "Negative", "Question">>

FormulaClasses == <<"formula formula--aff", "formula formula--neg", "formula formula--q">>

(* positions of the structures of a list that carry the given type *)
Typed(list, type) ==
  {n \in 1..Len(list) : list[n][1].type = Some(type)}

VoiceList(a, voice) ==
  IF IsSome(a.structures) /\ IsSome(a.structures[1][voice])
  THEN a.structures[1][voice][1]
  ELSE <<>>

Placeholder == Node("span", "muted", DASH, <<>>)

(* what a cell of aspect a shows under a voice: the description, the three
   formula blocks (of the last structure of each type), the markers block *)
ExpectedCell(a, voice) ==
  LET list == VoiceList(a, voice)
      formula(k) ==
        LET at == Typed(list, BlockTypes[k])
        IN IF at = {} \/ ~Truthy(list[Last(at)][1].formula)
           THEN Placeholder
           ELSE Node("div", FormulaClasses[k], list[Last(at)][1].formula[1], <<>>)
      ms == IF IsSome(a.markers) THEN a.markers[1] ELSE <<>>
      chips == IF Len(ms) = 0
               THEN <<Placeholder>>
               ELSE [n \in 1..Len(ms) |-> Node("span", "marker-chip", ms[n], <<>>)]
  IN (IF Truthy(a.description)
      THEN <<Node("div", "cell-desc", a.description[1], <<>>)>>
      ELSE <<>>)
     \o [k \in 1..Len(BlockTypes) |-> Node("div", "cell-block", <<>>, <<formula(k)>>)]
     \o <<Node("div", "cell-block", <<>>, <<Node("div", "markers", <<>>, chips)>>)>>

(* C5: for every aspect present in a tense (names and types unique, as the
   data model has them) and either voice, the cell holds in order the
   description, exactly three formula blocks for Affirmative, Negative and
   Question, each with the formula of the structure of that type under the
   selected voice or the placeholder when the structure or its formula is
   absent, then the markers block with one chip per marker in list order or
   the placeholder when there is none. *)
C5_CellContents ==
  Loaded =>
    \A i \in 1..Len(tbody), j \in 1..Len(Categories) :
      LET aspects == tenses[i][1].aspects[1]
          at == Named(aspects, Categories[j])
      IN Cardinality(at) = 1 =>
           LET a == aspects[Last(at)][1]
           IN (\A k \in 1..Len(BlockTypes) :
                 Cardinality(Typed(VoiceList(a, state.voice), BlockTypes[k])) <= 1)
              => tbody[i].kids[j + 1].kids[1].kids = ExpectedCell(a, state.voice)

C5_Witness ==
  /\ Loaded
  /\ state.voice = "passive"
  /\ WellFormed(state.data)
  /\ Len(tbody) = 1
  /\ Len(tenses[1][1].aspects[1]) = 1
  /\ LET a == tenses[1][1].aspects[1][1][1]
     IN /\ Len(VoiceList(a, "passive")) = MaxStructures
        /\ Len(tbody[1].kids[2].kids[1].kids) = 5

(* C8: under every interleaving of toggles with the completion of the fetch,
   once the data has loaded the table is the rendering of the dataset under
   the current state.voice, and state.voice is the voice last selected: a
   toggle made before the load is not lost, and each later toggle re-renders. *)
C8_TableFollowsVoice ==
  fetch = "fulfilled" =>
    /\ IsSome(selected) => state.voice = selected[1]
    /\ IF IsSome(state.data) THEN tbody = TableFor(state.voice) ELSE tbody = <<>>

C8_Witness ==
  /\ Loaded
  /\ toggled = {"early"}
  /\ state.voice = "passive"
  /\ Len(tbody) > 0

KnownType(e) == ~IsSome(e) \/ (IsSome(e[1].type) /\ e[1].type[1] \in StructureTypes)

KnownName(e) == ~IsSome(e) \/ (IsSome(e[1].name) /\ e[1].name[1] \in AspectNames)

StripList(l) == IF IsSome(l) THEN Some(SelectSeq(l[1], KnownType)) ELSE None

StripAspect(e) ==
  IF ~IsSome(e) \/ ~IsSome(e[1].structures) THEN e
  ELSE Some([e[1] EXCEPT !.structures =
               Some([active |-> StripList(@[1].active), passive |-> StripList(@[1].passive)])])

StripTense(t) ==
  IF ~IsSome(t) \/ ~IsSome(t[1].aspects) THEN t
  ELSE LET kept == SelectSeq(t[1].aspects[1], KnownName)
       IN Some([t[1] EXCEPT !.aspects = Some([n \in 1..Len(kept) |-> StripAspect(kept[n])])])

(* the dataset without the aspects of unknown name and the structures of
   unknown type *)
StripData(d) ==
  IF ~IsSome(d) \/ ~IsSome(d[1].tenses) THEN d
  ELSE Some([tenses |-> Some([i \in 1..Len(d[1].tenses[1]) |-> StripTense(d[1].tenses[1][i])])])

(* C10: when names or types repeat, the cell of a category shows the last
   aspect of that name and the block of a type the last structure of that
   type; aspects of another name and structures of another type contribute
   nothing to the table. *)
C10_LastOccurrenceWins ==
  Loaded =>
    /\ \A i \in 1..Len(tbody), j \in 1..Len(Categories) :
         LET aspects == tenses[i][1].aspects[1]
             at == Named(aspects, Categories[j])
         IN at # {} =>
              tbody[i].kids[j + 1].kids[1].kids = ExpectedCell(aspects[Last(at)][1], state.voice)
    /\ tbody = render([state EXCEPT !.data = StripData(@)], <<>>, script).tbody

C10_Witness ==
  /\ Loaded
  /\ Len(tbody) = 1
  /\ LET aspects == tenses[1][1].aspects[1]
     IN /\ Len(aspects) = 2
        /\ aspects[1][1].name = aspects[2][1].name
        /\ aspects[1][1].description # aspects[2][1].description

(* C9 (as claimed): in every reachable state exactly one of is-active and
   is-passive is set on the controls element, is-active exactly when
   state.voice is active and is-passive exactly when it is passive. *)
C9_IndicatorAgrees ==
  /\ ("is-active" \in controls) <=> (state.voice = "active")
  /\ ("is-passive" \in controls) <=> (state.voice = "passive")

====
